---- MODULE Spec2Model ----
(***************************************************************************)
(* A model of EzMudae.py: the Mudae factory, the Waifu constructor (the    *)
(* roll / info / footer patterns), Waifu.fetch_extra, Waifu.await_claim,   *)
(* and the timing functions until_roll / until_claim / get_timing.         *)
(*                                                                         *)
(* Text is modelled as a sequence of tokens.  A token is one character     *)
(* class ("a" a letter, "sp" a space, "nl" a line break, a digit, a        *)
(* bracket) or one literal the patterns treat as a unit ("**",             *)
(* "Claims: #", "Likes: #", "Belongs to", ...).  Python values that may   *)
(* be None are modelled as sequences: <<>> is None (or an attribute that   *)
(* was never assigned), <<v>> is the value v.                              *)
(***************************************************************************)
EXTENDS Integers, Sequences, FiniteSets, TLC

VARIABLES
    message,    \* the message last handed to Mudae.waifu_from
    result,     \* what that call did: "idle", "Waifu", "None" or the exception that escaped
    waifu,      \* the attributes of the Waifu under study (see NewWaifu)
    channel,    \* message.channel: the channel's messages, newest first
    scanned,    \* the messages the last fetch_extra read from the channel
    pc,         \* per task: where its await_claim coroutine stands
    got,        \* per task: the message its wait_for future was resolved with
    ret,        \* per task: what its await_claim returned / raised
    now,        \* int(time.time())
    mudaeObj,   \* the attributes of the Mudae object (timing part)
    timingRet   \* the outcome of the last timing call

vars == <<message, result, waifu, channel, scanned, pc, got, ret, now, mudaeObj, timingRet>>

----------------------------------------------------------------------------
(* Values *)

None == <<>>
Some(v) == <<v>>

\* The configured mudae bot and the other users of the guild.
Bot == "mudae"
Alice == "Alice"
Bob == "Bob"
Users == {Alice, Bob}

Digits == {"0", "1", "2", "5"}

DigitVal(t) == CASE t = "0" -> 0 [] t = "1" -> 1 [] t = "2" -> 2 [] t = "5" -> 5

Tok(d, p) == IF p \in 1..Len(d) THEN d[p] ELSE "<eos>"

\* The number of consecutive digit tokens of d starting at position p.
RECURSIVE DigitRun(_, _)
DigitRun(d, p) == IF Tok(d, p) \in Digits THEN 1 + DigitRun(d, p + 1) ELSE 0

\* int(s) for a non-empty string of digits.
RECURSIVE IntOf(_)
IntOf(s) == IF Len(s) = 0 THEN 0
            ELSE 10 * IntOf(SubSeq(s, 1, Len(s) - 1)) + DigitVal(s[Len(s)])

\* str.replace: every line break becomes a space.
ReplaceNl(s) == [i \in 1..Len(s) |-> IF s[i] = "nl" THEN "sp" ELSE s[i]]

Min(S) == CHOOSE x \in S : \A y \in S : x <= y
Max(S) == CHOOSE x \in S : \A y \in S : x >= y

----------------------------------------------------------------------------
(* Waifu.__init__: the roll pattern (lines 175-178)                        *)
(* Any text (lazy, group 1), a line break, "**", one or more digits       *)
(* (group 2), "**", "<", any text, ">", the end of the string; "." also    *)
(* matches a line break (re.DOTALL).                                       *)

\* "<", text, ">", end, with the "<" already matched before position p: some ">" at or
\* after p ends the string, or stands before the string's final line break.
EndsWithGt(d, p) ==
    \E e \in p..Len(d) :
        /\ d[e] = ">"
        /\ \/ e = Len(d)
           \/ e = Len(d) - 1 /\ d[Len(d)] = "nl"

\* The rest of the roll pattern after group 1, tried at position i.
RollAt(d, i) ==
    LET k == DigitRun(d, i + 2)
    IN  /\ Tok(d, i) = "nl"
        /\ Tok(d, i + 1) = "**"
        /\ k >= 1
        /\ Tok(d, i + 2 + k) = "**"
        /\ Tok(d, i + 3 + k) = "<"
        /\ EndsWithGt(d, i + 4 + k)

\* re.search of the roll pattern: group 1 is lazy, so the first position
\* at which the rest matches ends it.
RollMatch(d) ==
    LET S == {i \in 1..Len(d) : RollAt(d, i)}
    IN  IF S = {} THEN [matched |-> FALSE]
        ELSE LET i == Min(S)
             IN  [matched |-> TRUE,
                  g1 |-> SubSeq(d, 1, i - 1),
                  g2 |-> SubSeq(d, i + 2, i + 1 + DigitRun(d, i + 2))]

----------------------------------------------------------------------------
(* Waifu.__init__: the info pattern (lines 185-192)                        *)
(* Any text (greedy, group 1), " <:", one or more characters (lazy, group  *)
(* 2), ":", digits, ">", any text (lazy), "**", digits (group 3, may be    *)
(* empty), any text without "(", optionally a bracketed run of digits      *)
(* (group 4), any text (greedy), "Claims: #", digits (group 5, may be      *)
(* empty), any text (lazy), "Likes: #", digits (group 6, may be empty).    *)

\* The positions c >= s of a "Claims: #" that has a "Likes: #" after its digits.
RanksFrom(d, s) ==
    {c \in s..Len(d) :
        /\ d[c] = "Claims: #"
        /\ \E l \in (c + 1 + DigitRun(d, c + 1))..Len(d) : d[l] = "Likes: #"}

\* ":", one or more digits, ">" at position j.
GenderEndAt(d, j) ==
    /\ Tok(d, j) = ":"
    /\ DigitRun(d, j + 1) >= 1
    /\ Tok(d, j + 1 + DigitRun(d, j + 1)) = ">"

\* Where group 2 ends, for the marker " <:" at i: group 2 is lazy and not
\* empty, so the first ":digits>" from i + 4 ends it.  0 when there is none.
GenderEnd(d, i) ==
    LET J == {j \in (i + 4)..Len(d) : GenderEndAt(d, j)}
    IN  IF J = {} THEN 0 ELSE Min(J)

\* The position after the gender emoji whose ":" is at j.
AfterGender(d, j) == j + 2 + DigitRun(d, j + 1)

\* Lazy text up to "**": the first "**" at or after p; 0 when there is none.
FirstStars(d, p) ==
    LET Q == {q \in p..Len(d) : d[q] = "**"}
    IN  IF Q = {} THEN 0 ELSE Min(Q)

\* The pattern from the kakera's "**" at q on: what follows the kakera digits
\* is free text up to "Claims: #", so any later pair of ranks will do.
InfoTailOk(d, q) == q # 0 /\ RanksFrom(d, q + 1 + DigitRun(d, q + 1)) # {}

InfoGenderOk(d, j) == j # 0 /\ InfoTailOk(d, FirstStars(d, AfterGender(d, j)))

\* The whole info pattern with " <:" at position i.
InfoAt(d, i) ==
    /\ Tok(d, i) = "sp" /\ Tok(d, i + 1) = "<" /\ Tok(d, i + 2) = ":"
    /\ InfoGenderOk(d, GenderEnd(d, i))

\* The bracket-free text is greedy: it runs to the first "(" at or after s (or to the end).
FirstParen(d, s) ==
    LET T == {t \in s..Len(d) : d[t] = "("}
    IN  IF T = {} THEN Len(d) + 1 ELSE Min(T)

\* The digits at position p (possibly none).
DigitsAt(d, p) == SubSeq(d, p, p + DigitRun(d, p) - 1)

\* Group 6: the digits after the first "Likes: #" that follows position ce.
LikesAfter(d, ce) == DigitsAt(d, 1 + Min({x \in (ce + 1)..Len(d) : d[x] = "Likes: #"}))

\* The groups of the match with the marker at i, group 2 ending before j,
\* the kakera's "**" at q, the text after the kakera digits starting at s,
\* the first "(" from s at t, its digits ending before e, and the last
\* "Claims: #" (the text before it is greedy) at c.  Group 4 is None when
\* the optional group took no part in the match.
InfoGroups(d, i, j, q, s, t, e, c) ==
    [matched |-> TRUE,
     g1 |-> SubSeq(d, 1, i - 1),
     g2 |-> SubSeq(d, i + 3, j - 1),
     g3 |-> SubSeq(d, q + 1, s - 1),
     g4 |-> IF Tok(d, t) = "(" /\ Tok(d, e) = ")" /\ RanksFrom(d, e + 1) # {}
            THEN Some(SubSeq(d, t + 1, e - 1)) ELSE None,
     g5 |-> DigitsAt(d, c + 1),
     g6 |-> LikesAfter(d, c + DigitRun(d, c + 1))]

InfoFromParen(d, i, j, q, s, t) ==
    InfoGroups(d, i, j, q, s, t, t + 1 + DigitRun(d, t + 1), Max(RanksFrom(d, s)))

InfoFromKakera(d, i, j, q, s) == InfoFromParen(d, i, j, q, s, FirstParen(d, s))

InfoFromStars(d, i, j, q) == InfoFromKakera(d, i, j, q, q + 1 + DigitRun(d, q + 1))

InfoFromGender(d, i, j) == InfoFromStars(d, i, j, FirstStars(d, AfterGender(d, j)))

InfoMatchIn(d, S) ==
    IF S = {} THEN [matched |-> FALSE]
    ELSE InfoFromGender(d, Max(S), GenderEnd(d, Max(S)))

\* re.search of the info pattern: group 1 is greedy, so the last marker at
\* which the rest matches ends it.
InfoMatch(d) == InfoMatchIn(d, {i \in 1..Len(d) : InfoAt(d, i)})

----------------------------------------------------------------------------
(* Waifu.__init__: the footer pattern (lines 216-223), used with re.search *)
(* Optionally "Belongs to", " " and one or more characters (lazy, group 1),    *)
(* optionally " ~~ ", optionally digits (group 2), " / ", digits (group    *)
(* 3) and optionally " [", digits (group 4), "]"; then the end of the      *)
(* string.                                                                 *)

\* "$": the end of the string, or just before its final line break.
EndAt(f, p) == p = Len(f) + 1 \/ (p = Len(f) /\ f[p] = "nl")

\* The image data group and the end of the string: the first index at p..a-1,
\* the second at b..c-1, and k3 digits at c + 2.
ImageResult(f, p, a, b, c, k3) ==
    IF /\ a > p
       /\ Tok(f, a) = "sp" /\ Tok(f, a + 1) = "/" /\ Tok(f, a + 2) = "sp"
       /\ c > b
    THEN IF /\ Tok(f, c) = "sp" /\ Tok(f, c + 1) = "["
            /\ k3 >= 1
            /\ Tok(f, c + 2 + k3) = "]"
            /\ EndAt(f, c + 3 + k3)
         THEN [ok |-> TRUE, g2 |-> Some(SubSeq(f, p, a - 1)),
               g3 |-> Some(SubSeq(f, b, c - 1)),
               g4 |-> Some(SubSeq(f, c + 2, c + 1 + k3))]
         ELSE [ok |-> EndAt(f, c), g2 |-> Some(SubSeq(f, p, a - 1)),
               g3 |-> Some(SubSeq(f, b, c - 1)), g4 |-> None]
    ELSE [ok |-> FALSE, g2 |-> None, g3 |-> None, g4 |-> None]

ImageAfterCount(f, p, a, b, c) == ImageResult(f, p, a, b, c, DigitRun(f, c + 2))

ImageAfterIndex(f, p, a) == ImageAfterCount(f, p, a, a + 3, a + 3 + DigitRun(f, a + 3))

\* The image data group and the end of the string, tried at position p.
ImageAt(f, p) == ImageAfterIndex(f, p, p + DigitRun(f, p))

NoImage(ok) == [ok |-> ok, g2 |-> None, g3 |-> None, g4 |-> None]

OrEnd(f, p, m) == IF m.ok THEN m ELSE NoImage(EndAt(f, p))

\* The optional image data group, then the end of the string.
ImageOrEnd(f, p) == OrEnd(f, p, ImageAt(f, p))

OrNoSep(sep, with, without) == IF sep /\ with.ok THEN with ELSE without

\* The optional separator, then the rest.
SepThenImage(f, p) ==
    OrNoSep(Tok(f, p) = "sp" /\ Tok(f, p + 1) = "~~" /\ Tok(f, p + 2) = "sp",
            ImageOrEnd(f, p + 3), ImageOrEnd(f, p))

WithOwner(r, g1) == [ok |-> r.ok, g1 |-> g1, g2 |-> r.g2, g3 |-> r.g3, g4 |-> r.g4]

\* J: where group 1 (lazy) may end so that the rest matches.
FooterFrom(f, s, J) ==
    IF Tok(f, s) = "Belongs to" /\ Tok(f, s + 1) = "sp" /\ J # {}
    THEN WithOwner(SepThenImage(f, Min(J)), Some(SubSeq(f, s + 2, Min(J) - 1)))
    ELSE WithOwner(SepThenImage(f, s), None)

\* The whole footer pattern tried at start position s.
FooterAt(f, s) ==
    FooterFrom(f, s, {j \in (s + 3)..(Len(f) + 1) : SepThenImage(f, j).ok})

\* re.search: the first start position at which the pattern matches (the
\* end of the string always does).
FooterMatch(f) ==
    FooterAt(f, Min({s \in 1..(Len(f) + 1) : FooterAt(f, s).ok}))

----------------------------------------------------------------------------
(* Messages.  A message is [id, author, embeds, content, mentions]; an     *)
(* embed is [name, image, description, footer], each None (Embed.Empty)    *)
(* or Some(value).                                                         *)

Embed(name, image, description, footer) ==
    [name |-> name, image |-> image, description |-> description, footer |-> footer]

Msg(id, author, embeds, content, mentions) ==
    [id |-> id, author |-> author, embeds |-> embeds, content |-> content,
     mentions |-> mentions]

\* guild.get_member_named: the member of that name, None when there is none.
GetMemberNamed(name) ==
    IF name = <<"Alice">> THEN Some(Alice)
    ELSE IF name = <<"Bob">> THEN Some(Bob)
    ELSE None

----------------------------------------------------------------------------
(* Mudae.Waifu.__init__ (lines 144-236)                                    *)

\* Lines 145-161: the attributes as first assigned.  is_girl and is_claimed
\* are not assigned here: <<>> stands for "no such attribute" in them.
NewWaifu(msg) ==
    [message |-> msg.id, suitors |-> <<>>, name |-> None, series |-> None,
     kakera |-> None, key |-> None, claims |-> None, likes |-> None,
     owner |-> None, image |-> None, creator |-> None, image_count |-> None,
     image_index |-> None, image_extra |-> None, type |-> "None",
     is_girl |-> <<>>, is_claimed |-> <<>>]

\* No Waifu object.
NoWaifu == [absent |-> TRUE]

Raised(e) == [exc |-> e, obj |-> NoWaifu]
Built(o) == [exc |-> "none", obj |-> o]

\* Line 166 without its first operand: the author is never looked at.
NotValidMessage_AnyAuthor(mudae, msg) ==
    \/ Len(msg.embeds) # 1
    \/ msg.embeds[1].image = None

\* Line 166, in Python's evaluation order ("or" stops at the first true operand).
NotValidMessage(mudae, msg) ==
    \/ msg.author # mudae
    \/ Len(msg.embeds) # 1
    \/ msg.embeds[1].image = None

\* Lines 179-182, with m the roll pattern's match.
ApplyRollMatch(o, m) ==
    IF m.matched
    THEN [o EXCEPT !.series = Some(ReplaceNl(m.g1)),
                   !.kakera = Some(IntOf(m.g2)),
                   !.type = "roll"]
    ELSE o

ApplyRoll(o, desc) == ApplyRollMatch(o, RollMatch(desc))

\* Lines 193-206, with m the info pattern's match.  int() of an empty
\* capture raises ValueError.
ApplyInfoMatch(o, m) ==
    IF ~m.matched THEN Built(o)
    ELSE IF m.g3 = <<>> \/ m.g5 = <<>> \/ m.g6 = <<>> THEN Raised("ValueError")
    ELSE Built([o EXCEPT !.series = Some(ReplaceNl(m.g1)),
                         !.is_girl = Some(m.g2 = <<"female">>),
                         !.kakera = Some(IntOf(m.g3)),
                         !.key = IF m.g4 # None /\ m.g4[1] # <<>>
                                 THEN Some(IntOf(m.g4[1])) ELSE Some(0),
                         !.claims = Some(IntOf(m.g5)),
                         !.likes = Some(IntOf(m.g6)),
                         !.type = "info"])

\* Lines 185-206: run whether or not the roll pattern matched.
ApplyInfo(o, desc) == ApplyInfoMatch(o, InfoMatch(desc))

\* Lines 224-236, with m the footer's match.
ApplyFooterMatch(o, m) ==
    [o EXCEPT !.owner = IF m.g1 # None THEN GetMemberNamed(m.g1[1]) ELSE @,
              !.is_claimed = Some(m.g1 # None),
              !.image_index = IF m.g2 # None THEN Some(IntOf(m.g2[1])) ELSE @,
              !.image_count = IF m.g3 # None THEN Some(IntOf(m.g3[1])) ELSE @,
              !.image_extra = IF m.g4 # None THEN Some(IntOf(m.g4[1])) ELSE Some(0)]

\* Lines 213-236.
ApplyFooter(o, footer) ==
    IF footer = None \/ footer = Some(<<>>)
    THEN [o EXCEPT !.is_claimed = Some(FALSE)]
    ELSE ApplyFooterMatch(o, FooterMatch(footer[1]))

\* Lines 208-236, with r what the two patterns left.
FinishWaifu(r, footer) ==
    IF r.exc # "none" THEN r
    ELSE IF r.obj.series = None \/ r.obj.series = Some(<<>>) THEN Raised("TypeError")
    ELSE Built(ApplyFooter(r.obj, footer))

\* Lines 169-236, for a message that passed line 166.  re.search raises
\* TypeError when the embed has no description.
ParseEmbed(msg, embed) ==
    IF embed.description = None THEN Raised("TypeError")
    ELSE FinishWaifu(
             ApplyInfo(ApplyRoll([NewWaifu(msg) EXCEPT !.name = embed.name,
                                                       !.image = embed.image],
                                 embed.description[1]),
                       embed.description[1]),
             embed.footer)

\* The constructor: the exception it raises, or the object it builds.
Waifu(mudae, msg) ==
    IF NotValidMessage(mudae, msg) THEN Raised("TypeError")
    ELSE ParseEmbed(msg, msg.embeds[1])

Returned(r) ==
    IF r.exc = "TypeError" THEN [kind |-> "None", obj |-> NoWaifu]
    ELSE IF r.exc = "none" THEN [kind |-> "Waifu", obj |-> r.obj]
    ELSE [kind |-> r.exc, obj |-> NoWaifu]

\* Mudae.waifu_from (lines 337-340): TypeError becomes None, anything else escapes.
waifu_from(mudae, msg) == Returned(Waifu(mudae, msg))

----------------------------------------------------------------------------
(* Tasks awaiting a claim, and the parts of the state each specification   *)
(* leaves alone.                                                           *)

Tasks == {"t1", "t2"}

NoMudae == [absent |-> TRUE]
NoCall == [op |-> "none"]

IdleTasks ==
    /\ pc = [t \in Tasks |-> "idle"]
    /\ got = [t \in Tasks |-> <<>>]
    /\ ret = [t \in Tasks |-> <<>>]

NoMessage == [absent |-> TRUE]

NoChannel == channel = <<>> /\ scanned = <<>>

NoParse == message = NoMessage /\ result = "idle" /\ waifu = NoWaifu /\ NoChannel

IdleTiming == now = 0 /\ mudaeObj = NoMudae /\ timingRet = NoCall

----------------------------------------------------------------------------
(* The messages handed to waifu_from.  A description is a head, a gender   *)
(* emoji, a kakera part, a key part, the two ranks and a tail, each taken  *)
(* from a few forms, well-formed and not.                                  *)

Heads == {<<>>, <<"a">>, <<"a", "nl", "a">>}

Markers == {<<>>,
            <<"sp", "<", ":", "female", ":", "1", ">">>,
            <<"sp", "<", ":", "a", ":", "1", "2", ">">>}

Kakeras == {<<>>,
            <<"nl", "**", "1", "2", "**", "<", ":", "a", ":", "1", ">">>,
            <<"sp", "**", "1", "2", "**">>,
            <<"sp", "**", "**">>,
            <<"nl", "**", "**", "<", "a", ">">>}

Keys == {<<>>, <<"sp", "(", "2", ")">>, <<"(", ")">>}

Ranks == {<<>>,
          <<"nl", "Claims: #", "1", "nl", "Likes: #", "2", "5">>,
          <<"Claims: #", "nl", "Likes: #", "2">>,
          <<"Claims: #", "1", "Likes: #">>,
          <<"Claims: #", "1">>}

Tails == {<<>>, <<"<", "a", ">">>}

Descriptions ==
    {h \o g \o k \o y \o r \o t :
        h \in Heads, g \in Markers, k \in Kakeras, y \in Keys, r \in Ranks, t \in Tails}

Footers == {None,
            Some(<<"Belongs to", "sp", "Alice">>),
            Some(<<"Belongs to", "sp", "Bob", "sp", "~~", "sp", "2", "sp", "/", "sp", "5",
                   "sp", "[", "1", "]">>),
            Some(<<"2", "sp", "/", "sp", "1", "5">>),
            Some(<<"a">>)}

Names == {None, Some(<<"Rem">>)}

Images == {None, Some("url")}

Embeds ==
    {Embed(n, i, d, f) :
        n \in Names, i \in Images, d \in {None} \cup {Some(x) : x \in Descriptions},
        f \in Footers}

Messages ==
    {Msg(100, a, e, <<>>, <<>>) :
        a \in {Bot, Alice},
        e \in {<<>>} \cup {<<x>> : x \in Embeds}
              \cup {<<Embed(Some(<<"Rem">>), Some("url"), None, None),
                      Embed(Some(<<"Rem">>), Some("url"), None, None)>>}}

----------------------------------------------------------------------------
(* The parser: one message arrives and is handed to waifu_from.            *)

ParseInit ==
    /\ message \in Messages
    /\ result = "idle"
    /\ waifu = NoWaifu
    /\ NoChannel
    /\ IdleTasks
    /\ IdleTiming

Return(r) == result' = r.kind /\ waifu' = r.obj

WaifuFrom ==
    /\ result = "idle"
    /\ Return(waifu_from(Bot, message))
    /\ UNCHANGED <<message, channel, scanned, pc, got, ret, now, mudaeObj, timingRet>>

ParseNext == WaifuFrom

ParseSpec == ParseInit /\ [][ParseNext]_vars

----------------------------------------------------------------------------
(* The timing part of Mudae: __init__ (lines 58-66), until_roll (390-397), *)
(* until_claim (414-421) and get_timing (463-472).  An object is the       *)
(* record of the attributes that were assigned; reading an attribute that  *)
(* never was raises AttributeError.                                        *)

\* Mudae.__init__: a timing list that is None or empty is falsy.
MudaeInit(timing) ==
    IF timing # <<>>
    THEN [roll_mod |-> timing[1], claim_mod |-> timing[2], roll_rem |-> timing[3],
          claim_rem |-> timing[4], timing |-> timing, has_timing |-> TRUE]
    ELSE [has_timing |-> FALSE]

Value(v) == [exc |-> "none", val |-> v]
Raise(e) == [exc |-> e, val |-> 0]

\* int(x / 60): the quotient cut towards zero.
IntDiv60(x) == IF x >= 0 THEN x \div 60 ELSE -((-x) \div 60)

\* Lines 392-397 without the wrap of lines 393-394.
TimeLeft_NoWrap(rem, mod, t, in_seconds) ==
    IF mod = 0 THEN Raise("ZeroDivisionError")
    ELSE IF in_seconds THEN Value(rem - (t % mod))
    ELSE Value(IntDiv60(rem - (t % mod)))

\* Lines 392-397 (and 416-421): the time left at clock value t.
TimeLeft(rem, mod, t, in_seconds) ==
    IF mod = 0 THEN Raise("ZeroDivisionError")
    ELSE IF in_seconds
    THEN Value(IF rem - (t % mod) < 0 THEN rem - (t % mod) + mod ELSE rem - (t % mod))
    ELSE Value(IntDiv60(IF rem - (t % mod) < 0 THEN rem - (t % mod) + mod
                                                 ELSE rem - (t % mod)))

\* Lines 390-391: self._timing is read, which __init__ assigns only when a
\* timing list was given.
until_roll(self, t, in_seconds) ==
    IF "timing" \notin DOMAIN self THEN Raise("AttributeError")
    ELSE IF self.timing = <<>> THEN Raise("TypeError")
    ELSE TimeLeft(self.roll_rem, self.roll_mod, t, in_seconds)

until_claim(self, t, in_seconds) ==
    IF "timing" \notin DOMAIN self THEN Raise("AttributeError")
    ELSE IF self.timing = <<>> THEN Raise("TypeError")
    ELSE TimeLeft(self.claim_rem, self.claim_mod, t, in_seconds)

\* list[i] = v (i counted from 0): IndexError unless the list has an item i.
SetItem(r, i, v) ==
    IF r.exc # "none" THEN r
    ELSE IF i >= Len(r.val) THEN Raise("IndexError")
    ELSE Value([r.val EXCEPT ![i + 1] = v])

\* The right-hand sides of lines 470-471; the period is the one passed in.
Phase(t, rem, mult, mod) == IF mod = 0 THEN Raise("ZeroDivisionError") ELSE Value((t + rem * mult) % mod)

\* An assignment whose right-hand side raised raises that.
SetPhase(r, i, ph) ==
    IF r.exc # "none" THEN r
    ELSE IF ph.exc # "none" THEN ph
    ELSE SetItem(r, i, ph.val)

TimingList(roll_mod, claim_mod, roll_rem, claim_rem, mult, t) ==
    SetPhase(SetPhase(SetItem(SetItem(Value(<<>>), 0, roll_mod * mult),
                              1, claim_mod * mult),
                      2, Phase(t, roll_rem, mult, roll_mod)),
             3, Phase(t, claim_rem, mult, claim_mod))

\* Mudae.get_timing at clock value t: times starts as the empty list.
get_timing(roll_mod, claim_mod, roll_rem, claim_rem, in_seconds, t) ==
    TimingList(roll_mod, claim_mod, roll_rem, claim_rem, IF in_seconds THEN 1 ELSE 60, t)

\* The longest period and the last clock value of the model.
MaxPeriod == 3
MaxNow == 8

\* The timing lists a Mudae is constructed with: none, or any four numbers.
Timings ==
    {<<>>} \cup {<<rm, cm, rr, cr>> : rm \in 0..MaxPeriod, cm \in 0..MaxPeriod,
                                      rr \in 0..MaxPeriod, cr \in 0..MaxPeriod}

TimingInit ==
    /\ \E timing \in Timings : mudaeObj = MudaeInit(timing)
    /\ now = 0
    /\ timingRet = NoCall
    /\ NoParse
    /\ IdleTasks

TimingQuiet == UNCHANGED <<message, result, waifu, channel, scanned, pc, got, ret>>

\* A second passes.
Tick ==
    /\ now < MaxNow
    /\ now' = now + 1
    /\ UNCHANGED <<mudaeObj, timingRet>>
    /\ TimingQuiet

UntilRoll ==
    /\ \E in_seconds \in BOOLEAN :
          timingRet' = [op |-> "until_roll", in_seconds |-> in_seconds,
                        out |-> until_roll(mudaeObj, now, in_seconds)]
    /\ UNCHANGED <<now, mudaeObj>>
    /\ TimingQuiet

UntilClaim ==
    /\ \E in_seconds \in BOOLEAN :
          timingRet' = [op |-> "until_claim", in_seconds |-> in_seconds,
                        out |-> until_claim(mudaeObj, now, in_seconds)]
    /\ UNCHANGED <<now, mudaeObj>>
    /\ TimingQuiet

GetTiming ==
    /\ timingRet = NoCall
    /\ \E roll_mod, claim_mod \in 1..MaxPeriod, roll_rem, claim_rem \in 0..MaxPeriod,
          in_seconds \in BOOLEAN :
          timingRet' = [op |-> "get_timing",
                        args |-> <<roll_mod, claim_mod, roll_rem, claim_rem, in_seconds>>,
                        at |-> now,
                        out |-> get_timing(roll_mod, claim_mod, roll_rem, claim_rem,
                                           in_seconds, now)]
    /\ UNCHANGED <<now, mudaeObj>>
    /\ TimingQuiet

TimingNext == Tick \/ UntilRoll \/ UntilClaim

\* A Mudae, with or without a timing list, queried as the clock runs.
TimingSpec == TimingInit /\ [][TimingNext]_vars

\* The static get_timing called as the clock runs.
GetTimingInit ==
    /\ mudaeObj = NoMudae
    /\ now = 0
    /\ timingRet = NoCall
    /\ NoParse
    /\ IdleTasks

GetTimingNext == Tick \/ GetTiming

GetTimingSpec == GetTimingInit /\ [][GetTimingNext]_vars

----------------------------------------------------------------------------
(* Waifu.fetch_extra (lines 250-269)                                       *)

\* str.lower, on the words that matter here.
LowerTok(t) ==
    CASE t = "Wished" -> "wished"
      [] t = "Are now married" -> "are now married"
      [] OTHER -> t

Lower(s) == [i \in 1..Len(s) |-> LowerTok(s[i])]

\* The words of a text are its tokens: a word is in the text when it is one of them.
HasWord(s, word) == \E i \in 1..Len(s) : s[i] = word

\* channel.history(limit=10): the newest messages first.
HistoryLimit == 10

History(ch) == SubSeq(ch, 1, IF Len(ch) < HistoryLimit THEN Len(ch) ELSE HistoryLimit)

\* The state at which the loop stops (line 263).
LastState == 5

\* The loop of lines 251-269 with "state == 5" never true.
RECURSIVE Scan_NoLastState(_, _, _, _, _)
Scan_NoLastState(self, mudae, hist, i, state) ==
    IF i > Len(hist) THEN self
    ELSE IF state = 0
    THEN Scan_NoLastState(self, mudae, hist, i + 1, IF hist[i].id = self.message THEN 1 ELSE 0)
    ELSE IF state = 1
    THEN IF hist[i].author # mudae
         THEN [self EXCEPT !.creator = Some(hist[i].author)]
         ELSE IF HasWord(Lower(hist[i].content), "wished")
         THEN Scan_NoLastState([self EXCEPT !.suitors = hist[i].mentions], mudae, hist, i + 1, 2)
         ELSE Scan_NoLastState(self, mudae, hist, i + 1, 2)
    ELSE IF hist[i].author # mudae
         THEN [self EXCEPT !.creator = Some(hist[i].author)]
         ELSE Scan_NoLastState(self, mudae, hist, i + 1, state + 1)

\* The loop of lines 251-269 with the suitors taken in every state after 0.
RECURSIVE Scan_WishedAnywhere(_, _, _, _, _)
Scan_WishedAnywhere(self, mudae, hist, i, state) ==
    IF i > Len(hist) THEN self
    ELSE IF state = 0
    THEN Scan_WishedAnywhere(self, mudae, hist, i + 1, IF hist[i].id = self.message THEN 1 ELSE 0)
    ELSE IF state = LastState THEN self
    ELSE IF hist[i].author # mudae
         THEN [self EXCEPT !.creator = Some(hist[i].author)]
         ELSE IF HasWord(Lower(hist[i].content), "wished")
         THEN Scan_WishedAnywhere([self EXCEPT !.suitors = hist[i].mentions], mudae, hist,
                                  i + 1, state + 1)
         ELSE Scan_WishedAnywhere(self, mudae, hist, i + 1, state + 1)

\* The loop of lines 251-269 from message i of the history on, in state
\* `state`: the Waifu when the loop is left.
RECURSIVE Scan(_, _, _, _, _)
Scan(self, mudae, hist, i, state) ==
    IF i > Len(hist) THEN self
    ELSE IF state = 0
    THEN Scan(self, mudae, hist, i + 1, IF hist[i].id = self.message THEN 1 ELSE 0)
    ELSE IF state = 1
    THEN IF hist[i].author # mudae
         THEN [self EXCEPT !.creator = Some(hist[i].author)]
         ELSE IF HasWord(Lower(hist[i].content), "wished")
         THEN Scan([self EXCEPT !.suitors = hist[i].mentions], mudae, hist, i + 1, 2)
         ELSE Scan(self, mudae, hist, i + 1, 2)
    ELSE IF state = LastState THEN self
    ELSE IF hist[i].author # mudae
         THEN [self EXCEPT !.creator = Some(hist[i].author)]
         ELSE Scan(self, mudae, hist, i + 1, state + 1)

fetch_extra(self, mudae, ch) == Scan(self, mudae, History(ch), 1, 0)

----------------------------------------------------------------------------
(* The history resolver: a Waifu was just rolled; messages keep arriving   *)
(* in its channel and fetch_extra is called.                               *)

\* The most messages older than the Waifu's, and newer than it, in the channel.
MaxOlder == 5
MaxNewer == 10

\* What a message in the channel may be: a plain message of the bot, the
\* bot's wish announcement, or a message of a user (Alice and Bob take
\* turns) who writes "wished" himself.
Plain(id, author) == Msg(id, author, <<>>, <<"a">>, <<>>)
Kinds == {"bot", "wish", "user"}

OfKind(k, id) ==
    CASE k = "bot" -> Plain(id, Bot)
      [] k = "wish" -> Msg(id, Bot, <<>>, <<"a", "Wished", "a">>, <<Bob, Alice>>)
      [] k = "user" -> Msg(id, IF id % 2 = 1 THEN Alice ELSE Bob, <<>>, <<"wished">>, <<Alice>>)

\* A roll of the bot, as message number id.
RollEmbed ==
    Embed(Some(<<"Rem">>), Some("url"),
          Some(<<"a", "nl", "**", "1", "2", "**", "<", ":", "a", ":", "1", ">">>), None)

RollMessage(id) == Msg(id, Bot, <<RollEmbed>>, <<>>, <<>>)

\* The older messages, oldest last; message ids grow with time.
OlderMessages ==
    UNION {{[i \in 1..n |-> OfKind(ks[i], n + 1 - i)] : ks \in [1..n -> Kinds]} : n \in 0..MaxOlder}

FetchInit ==
    /\ \E older \in OlderMessages :
          /\ message = RollMessage(Len(older) + 1)
          /\ channel = <<message>> \o older
    /\ result = "Waifu"
    /\ waifu = waifu_from(Bot, message).obj
    /\ scanned = <<>>
    /\ IdleTasks
    /\ IdleTiming

\* Somebody writes in the channel.
Post ==
    /\ Len(channel) < message.id + MaxNewer
    /\ channel' = <<Plain(channel[1].id + 1, Alice)>> \o channel
    /\ UNCHANGED <<message, result, waifu, scanned, pc, got, ret, now, mudaeObj, timingRet>>

FetchExtra ==
    /\ result = "Waifu"
    /\ waifu' = fetch_extra(waifu, Bot, channel)
    /\ scanned' = History(channel)
    /\ UNCHANGED <<message, result, channel, pc, got, ret, now, mudaeObj, timingRet>>

FetchNext == Post \/ FetchExtra

FetchSpec == FetchInit /\ [][FetchNext]_vars

----------------------------------------------------------------------------
(* Waifu.await_claim (lines 302-315).  client.wait_for registers a future  *)
(* and a check; when a message is dispatched, every registered future      *)
(* whose check accepts it is resolved with it and unregistered; the        *)
(* coroutine that awaits the future runs on from there in a later step of  *)
(* the event loop.                                                         *)

\* a in b, for a name of one word.
NameIn(name, content) == \E i \in 1..Len(content) : <<content[i]>> = name

\* Lines 305-306 without the test of the name.
check_AnyName(self, mudae, m) ==
    IF m.author # mudae THEN "False"
    ELSE IF HasWord(Lower(m.content), "are now married") THEN "True"
    ELSE "False"

\* Lines 305-306: the three tests from left to right, the later ones made
\* only when the earlier ones passed; "self.name in ..." raises TypeError
\* when the embed had no author name and self.name is no string.
check(self, mudae, m) ==
    IF m.author # mudae THEN "False"
    ELSE IF self.name = None THEN "TypeError"
    ELSE IF ~NameIn(self.name[1], m.content) THEN "False"
    ELSE IF HasWord(Lower(m.content), "are now married") THEN "True"
    ELSE "False"

\* Where a waiting task is after its check returned or raised r: the
\* exception of a check is set on the future and raised in the waiting task.
Dispatched(r) ==
    IF r = "True" THEN "resolved" ELSE IF r = "TypeError" THEN "failed" ELSE "waiting"

\* Where the "**" are in a text.
StarsIn(content) == {i \in 1..Len(content) : content[i] = "**"}

\* content.split("**")[1]: the text between the first "**" and the next one
\* (or the end); IndexError when the text has no "**".
SplitSecond(content) ==
    IF StarsIn(content) = {} THEN Raise("IndexError")
    ELSE Value(SubSeq(content, Min(StarsIn(content)) + 1,
                      Min({i \in StarsIn(content) \cup {Len(content) + 1} :
                              i > Min(StarsIn(content))}) - 1))

\* Lines 309-312: the Waifu after a matching message m.
Claimed(self, m) ==
    [self EXCEPT !.owner = GetMemberNamed(SplitSecond(m.content).val),
                 !.is_claimed = Some(TRUE)]

\* What a call returned or raised, and on which path.
Returns(path, v) == [kind |-> "return", path |-> path, val |-> v]
Raises(e) == [kind |-> "raise", path |-> "matched", val |-> e]

\* The messages the bot and others send while a claim is awaited.
Married(id, author, who, name, phrase) ==
    Msg(id, author, <<>>, <<"**", who, "**", "and", "**", name, "**", phrase>>, <<>>)

ClaimMessages ==
    {Married(1, Bot, "Alice", "Rem", "are now married"),
     Married(2, Bot, "Bob", "Rem", "Are now married"),
     Married(3, Bot, "Bob", "Ram", "are now married"),
     Msg(4, Bot, <<>>, <<"**", "Alice", "**", "Rem">>, <<>>),
     Married(5, Alice, "Alice", "Rem", "are now married"),
     Msg(6, Bot, <<>>, <<"Rem", "are now married">>, <<>>)}

\* The Waifus awaited: a roll with no footer, one that belongs to Alice, one
\* that belongs to somebody the guild does not know.
ClaimFooters == {None, Some(<<"Belongs to", "sp", "Alice">>), Some(<<"Belongs to", "sp", "a">>)}

ClaimInit ==
    /\ \E f \in ClaimFooters, n \in Names :
          message = Msg(2, Bot, <<[RollEmbed EXCEPT !.footer = f, !.name = n]>>, <<>>, <<>>)
    /\ result = "Waifu"
    /\ waifu = waifu_from(Bot, message).obj
    /\ channel = <<message, OfKind("user", 1)>>
    /\ scanned = <<>>
    /\ IdleTasks
    /\ IdleTiming

ClaimQuiet == UNCHANGED <<message, result, channel, scanned, now, mudaeObj, timingRet>>

\* Lines 302-308: task t calls await_claim.
Call(t) ==
    /\ pc[t] \in {"idle", "done"}
    /\ IF waifu.is_claimed = Some(TRUE)
       THEN /\ pc' = [pc EXCEPT ![t] = "done"]
            /\ ret' = [ret EXCEPT ![t] = Returns("claimed", waifu.owner)]
       ELSE /\ pc' = [pc EXCEPT ![t] = "waiting"]
            /\ ret' = [ret EXCEPT ![t] = <<>>]
    /\ got' = [got EXCEPT ![t] = <<>>]
    /\ UNCHANGED waifu
    /\ ClaimQuiet

\* A message arrives: the check of every waiting task sees it.
Dispatch(m) ==
    /\ \E t \in Tasks : pc[t] = "waiting"
    /\ pc' = [t \in Tasks |-> IF pc[t] = "waiting"
                              THEN Dispatched(check(waifu, Bot, m)) ELSE pc[t]]
    /\ got' = [t \in Tasks |-> IF pc[t] = "waiting" THEN Some(m) ELSE got[t]]
    /\ UNCHANGED <<waifu, ret>>
    /\ ClaimQuiet

\* Lines 309-312: task t runs on with the message its future was resolved with.
Resume(t) ==
    /\ pc[t] = "resolved"
    /\ pc' = [pc EXCEPT ![t] = "done"]
    /\ IF SplitSecond(got[t][1].content).exc # "none"
       THEN /\ ret' = [ret EXCEPT ![t] = Raises(SplitSecond(got[t][1].content).exc)]
            /\ UNCHANGED waifu
       ELSE /\ waifu' = Claimed(waifu, got[t][1])
            /\ ret' = [ret EXCEPT ![t] = Returns("matched", waifu'.owner)]
    /\ UNCHANGED got
    /\ ClaimQuiet

\* Line 308: the exception of the check comes out of wait_for, and out of
\* await_claim, which catches asyncio.TimeoutError only.
Fail(t) ==
    /\ pc[t] = "failed"
    /\ pc' = [pc EXCEPT ![t] = "done"]
    /\ ret' = [ret EXCEPT ![t] = Raises("TypeError")]
    /\ UNCHANGED <<waifu, got>>
    /\ ClaimQuiet

\* Lines 314-315: the 60 seconds are over.
Timeout(t) ==
    /\ pc[t] = "waiting"
    /\ pc' = [pc EXCEPT ![t] = "done"]
    /\ ret' = [ret EXCEPT ![t] = Returns("timeout", None)]
    /\ UNCHANGED <<waifu, got>>
    /\ ClaimQuiet

\* fetch_extra called while claims are awaited.
FetchDuringClaim ==
    /\ scanned = <<>>
    /\ waifu' = fetch_extra(waifu, Bot, channel)
    /\ scanned' = History(channel)
    /\ UNCHANGED <<message, result, channel, pc, got, ret, now, mudaeObj, timingRet>>

ClaimNext ==
    \/ \E t \in Tasks : Call(t) \/ Resume(t) \/ Fail(t) \/ Timeout(t)
    \/ \E m \in ClaimMessages : Dispatch(m)
    \/ FetchDuringClaim

ClaimSpec == ClaimInit /\ [][ClaimNext]_vars

----------------------------------------------------------------------------
(* Properties of the parser *)

\* The description of the message handed to waifu_from, when it has one.
HasDescription == Len(message.embeds) = 1 /\ message.embeds[1].description # None
Description == message.embeds[1].description[1]

\* C1: waifu_from returns None, and builds no Waifu, for every message whose
\* author is not the mudae bot, whatever its embeds, image, description and
\* footer are.
C1_OtherAuthorRejected ==
    (result # "idle" /\ message.author # Bot) => (result = "None" /\ waifu = NoWaifu)

\* C1's case: a message of another author that was rejected although it
\* would have made a Waifu had the bot sent it.
C1_Witness ==
    /\ result = "None"
    /\ message.author # Bot
    /\ HasDescription
    /\ RollMatch(Description).matched
    /\ waifu_from(message.author, message).kind = "Waifu"

\* C2: for every description the roll pattern matches (with a series), the
\* record is of type roll with the roll pattern's series and kakera, and
\* has no gender, claims rank or likes rank: the info pattern is not applied.
C2_RollShapeIsRoll ==
    (/\ result # "idle"
     /\ ~NotValidMessage(Bot, message)
     /\ HasDescription
     /\ RollMatch(Description).matched
     /\ RollMatch(Description).g1 # <<>>)
    => (/\ result = "Waifu"
        /\ waifu.type = "roll"
        /\ waifu.series = Some(ReplaceNl(RollMatch(Description).g1))
        /\ waifu.kakera = Some(IntOf(RollMatch(Description).g2))
        /\ waifu.is_girl = <<>>
        /\ waifu.claims = None
        /\ waifu.likes = None)

\* C9: for every message of the bot with exactly one embed and an image,
\* waifu_from returns None or a Waifu whose name and series are not empty;
\* no exception escapes it.
C9_WaifuOrNone ==
    (result # "idle" /\ ~NotValidMessage(Bot, message))
    => \/ result = "None"
       \/ /\ result = "Waifu"
          /\ waifu.name # None /\ waifu.name # Some(<<>>)
          /\ waifu.series # None /\ waifu.series # Some(<<>>)

----------------------------------------------------------------------------
(* Properties of the timing functions *)

\* The timing list get_timing is documented to return for these arguments
\* at clock value t: everything in seconds, each phase taken modulo its period.
ExpectedTiming(args, t) ==
    LET mult == IF args[5] THEN 1 ELSE 60
    IN  <<args[1] * mult, args[2] * mult,
          (t + args[3] * mult) % (args[1] * mult),
          (t + args[4] * mult) % (args[2] * mult)>>

\* C6: get_timing returns the list of the two periods in seconds and the two
\* phases (now + remaining seconds) mod period seconds.
C6_GetTimingReturnsList ==
    timingRet.op = "get_timing"
    => /\ timingRet.out.exc = "none"
       /\ timingRet.out.val = ExpectedTiming(timingRet.args, timingRet.at)

\* The Mudae was given a timing list with periods > 0 and 0 <= phase < period.
ValidTiming ==
    /\ mudaeObj.has_timing
    /\ mudaeObj.roll_mod > 0 /\ mudaeObj.roll_rem \in 0..(mudaeObj.roll_mod - 1)
    /\ mudaeObj.claim_mod > 0 /\ mudaeObj.claim_rem \in 0..(mudaeObj.claim_mod - 1)

\* From one second to the next the time left goes down by one, or from 0 to
\* the period less one.
CountsDown(a, b, period) == b = a - 1 \/ (a = 0 /\ b = period - 1)

C7_InRange ==
    (ValidTiming /\ timingRet.op \in {"until_roll", "until_claim"} /\ timingRet.in_seconds)
    => /\ timingRet.out.exc = "none"
       /\ timingRet.out.val >= 0
       /\ timingRet.op = "until_roll" => timingRet.out.val < mudaeObj.roll_mod
       /\ timingRet.op = "until_claim" => timingRet.out.val < mudaeObj.claim_mod

C7_Step ==
    (ValidTiming /\ now' = now + 1)
    => /\ CountsDown(until_roll(mudaeObj, now, TRUE).val,
                     until_roll(mudaeObj', now', TRUE).val, mudaeObj.roll_mod)
       /\ CountsDown(until_claim(mudaeObj, now, TRUE).val,
                     until_claim(mudaeObj', now', TRUE).val, mudaeObj.claim_mod)

\* C7: with a valid timing list, until_roll and until_claim in seconds are
\* in [0, period) at every clock value, count down by one per second and
\* wrap from 0 to period - 1, and no step changes the stored timing.
C7_UntilInRangeAndCountsDown ==
    /\ []C7_InRange
    /\ [][C7_Step]_vars
    /\ [][mudaeObj' = mudaeObj]_vars

\* C7's case: after the clock went round the period at least once,
\* until_roll returned 0 for a period of two seconds or more.
C7_Witness ==
    /\ ValidTiming
    /\ timingRet.op = "until_roll" /\ timingRet.in_seconds
    /\ timingRet.out.val = 0
    /\ mudaeObj.roll_mod >= 2
    /\ now > mudaeObj.roll_mod

\* C8: on a Mudae constructed without a timing list, until_roll and
\* until_claim fail with TypeError.
C8_MissingTimingIsTypeError ==
    (~mudaeObj.has_timing /\ timingRet.op \in {"until_roll", "until_claim"})
    => timingRet.out.exc = "TypeError"

----------------------------------------------------------------------------
(* Properties of the history resolver *)

\* Where the Waifu's own message is in a history (0 when it is not there).
AnchorAt(hist) ==
    IF \E i \in 1..Len(hist) : hist[i].id = message.id
    THEN Min({i \in 1..Len(hist) : hist[i].id = message.id})
    ELSE 0

\* The messages of a history after the Waifu's own, in scan order.
AfterAnchor(hist) ==
    IF AnchorAt(hist) = 0 THEN <<>> ELSE SubSeq(hist, AnchorAt(hist) + 1, Len(hist))

\* The author of the first of the first n messages of s that the bot did not
\* write, if there is one.
FirstNonBot(s, n) ==
    IF \E i \in 1..Min({n, Len(s)}) : s[i].author # Bot
    THEN Some(s[Min({i \in 1..Min({n, Len(s)}) : s[i].author # Bot})].author)
    ELSE None

\* A step in which fetch_extra read a history.
FetchStep == scanned' # scanned

\* The creator after a fetch_extra that looks at the first n messages after
\* the Waifu's own.
CreatorWithin(n) ==
    waifu'.creator = IF FirstNonBot(AfterAnchor(scanned'), n) # None
                     THEN FirstNonBot(AfterAnchor(scanned'), n)
                     ELSE waifu.creator

\* C5 as stated: fetch_extra sets creator to the author of the first message
\* after the Waifu's own that the bot did not write, wherever in the window
\* of 10 messages it lies, and leaves creator alone only when there is none.
C5_CreatorAnywhereInWindow == [][FetchStep => CreatorWithin(HistoryLimit)]_vars

\* C5, amended: fetch_extra sets creator to the author of the first message
\* the bot did not write among the first four messages after the Waifu's
\* own in the window, and leaves creator alone when there is none among
\* those four (or the Waifu's message is not in the window).
C5_CreatorWithinFour == [][FetchStep => CreatorWithin(LastState - 1)]_vars

\* C5's case: the creator is the author of the fourth message after the
\* Waifu's own, the three before it being the bot's.
C5_Witness ==
    /\ Len(AfterAnchor(scanned)) >= 4
    /\ \A i \in 1..3 : AfterAnchor(scanned)[i].author = Bot
    /\ AfterAnchor(scanned)[4].author # Bot
    /\ waifu.creator = Some(AfterAnchor(scanned)[4].author)

\* The message right after the Waifu's own is the bot's and has "wished".
WishedNext(hist) ==
    /\ AfterAnchor(hist) # <<>>
    /\ AfterAnchor(hist)[1].author = Bot
    /\ HasWord(Lower(AfterAnchor(hist)[1].content), "wished")

C10_Step ==
    FetchStep =>
       /\ waifu'.suitors = IF WishedNext(scanned')
                           THEN AfterAnchor(scanned')[1].mentions
                           ELSE waifu.suitors
       /\ WishedNext(scanned') => CreatorWithin(LastState - 1)
       /\ (AfterAnchor(scanned') # <<>> /\ AfterAnchor(scanned')[1].author # Bot)
             => waifu'.creator = Some(AfterAnchor(scanned')[1].author)

\* C10: fetch_extra assigns suitors only from the message right after the
\* Waifu's own, and only when the bot wrote it and it has "wished"; the scan
\* goes on after that, so that a later message of another author is still
\* recorded as creator by the same call; and when the message right after
\* the Waifu's own is not the bot's, creator is set and suitors stay empty.
C10_SuitorsFromNextMessageOnly ==
    /\ [][C10_Step]_vars
    /\ []((AfterAnchor(channel) # <<>> /\ AfterAnchor(channel)[1].author # Bot)
             => waifu.suitors = <<>>)

\* C10's case: one call took the suitors from the wish right after the
\* Waifu's own message and the creator from a message after the wish.
C10_Witness ==
    /\ WishedNext(scanned)
    /\ waifu.suitors = <<Bob, Alice>>
    /\ \E i \in 2..Len(AfterAnchor(scanned)) :
          /\ AfterAnchor(scanned)[i].author # Bot
          /\ waifu.creator = Some(AfterAnchor(scanned)[i].author)

----------------------------------------------------------------------------
(* Properties of the claim awaiter *)

\* C3: is_claimed never goes from true to false, and is_claimed and owner
\* change only in a step of await_claim that received a matching message,
\* and only on a Waifu that was unclaimed until then (so at most once).
C3_ClaimedAtMostOnce ==
    /\ [][waifu.is_claimed = Some(TRUE) => waifu'.is_claimed = Some(TRUE)]_vars
    /\ [][(waifu'.is_claimed # waifu.is_claimed \/ waifu'.owner # waifu.owner)
            => /\ waifu.is_claimed = Some(FALSE)
               /\ waifu'.is_claimed = Some(TRUE)
               /\ \E t \in Tasks : /\ pc[t] = "resolved" /\ pc'[t] = "done"
                                   /\ check(waifu, Bot, got[t][1]) = "True"]_vars

\* Task t is the only one that ever called await_claim.
OnlyCaller(t) == \A u \in Tasks \ {t} : pc[u] = "idle" /\ ret[u] = <<>>

====
